---- MODULE Spec2Model ----
(***************************************************************************)
(* A model of the MagicBricks crawl of                                     *)
(* ncr_property_price_estimation/data/ingestion.py (price normalisation,  *)
(* listing extraction, DataBuffer, CheckpointManager, scrape_city, run and *)
(* main), of the crawl of 99acres_scraper.py, and of parse_location and    *)
(* recover_area_and_rate of preprocess.py.                                 *)
(*                                                                         *)
(* Texts are sequences of one-character strings, numbers parsed from a     *)
(* text are exact decimals [num, den] (num / den), the store file is a     *)
(* sequence of CSV lines, the checkpoint file a record.  Every file        *)
(* operation (to_csv, json.dump) either takes effect as a whole or raises  *)
(* and leaves the file alone; KeyboardInterrupt and the death of the       *)
(* process arrive between the statements of the crawl loop.                *)
(***************************************************************************)
EXTENDS Integers, Sequences, FiniteSets, TLC

VARIABLES
    store,              \* the CSV file: NoStore, or its lines
    ckpt,               \* the checkpoint file: NoFile, or the saved record
    pc,                 \* where the process is (down: no process runs)
    seen_urls,          \* MagicBricksScraper.seen_urls
    buffer,             \* DataBuffer.buffer
    page_count,         \* DataBuffer.page_count
    finished_cities,    \* MagicBricksScraper.finished_cities
    resume_city,        \* MagicBricksScraper.resume_city
    resume_page,        \* MagicBricksScraper.resume_page
    ci,                 \* run: index of the city the for loop is at
    page,               \* scrape_city: the for loop's page
    consecutive_empty,  \* scrape_city: the empty streak
    outcome,            \* how run left its try block
    runs,               \* history: processes started so far
    loaded,             \* history: the checkpoint read by this process
    first_fetch,        \* history: per city, first page passed to get_page
    buf_origin,         \* history: per buffered row, the page it came from
    shutdown_ops,       \* history: calls made by the shutdown sequence
    last_flush,         \* history: what the flush call of the last step did
    flushed_log,        \* history: every row written, in order
    n_writes,           \* history: successful writes, counted up to 2
    rejected,           \* history: why this process rejected cards
    ex_site,            \* extraction harness: which extractor is called
    ex_cards,           \* extraction harness: the page's cards
    ex_outs,            \* extraction harness: what each call returned
    collected,          \* _scrape_city (99acres): city_listings_collected
    page_counter,       \* CheckpointManager.page_counter (99acres), modulo
                        \* the save interval
    since_save,         \* history (99acres): pages processed since the last
                        \* cadence save, counted up to BatchSize + 1
    acres_events,       \* history (99acres): what has happened to this
                        \* process: the user chose to quit at the CAPTCHA
                        \* prompt ("quit"), a flush raised ("flush_failed")
    fn_in,              \* function harness: the argument of the call
    fn_out              \* function harness: what the call returned

vars == <<store, ckpt, pc, seen_urls, buffer, page_count, finished_cities,
          resume_city, resume_page, ci, page, consecutive_empty, outcome,
          runs, loaded, first_fetch, buf_origin, shutdown_ops, last_flush,
          flushed_log, n_writes, rejected, ex_site, ex_cards, ex_outs,
          collected, page_counter, since_save, acres_events, fn_in, fn_out>>

----------------------------------------------------------------------------
(* Bounds of the model.                                                    *)

\* scrape_city's max_pages (200 in the code)
MaxPages == 2
\* DataBuffer.batch_size (10 in the code)
BatchSize == 2
\* the empty-streak limit (5 in the code)
EmptyLimit == 2
\* processes started one after the other
MaxRuns == 2
\* calls of the extractor on one page, in the extraction harness
MaxCalls == 2
\* a city's target_count in the configuration of PropertyScraper
TargetCount == 2
\* calls of DataBuffer.add, and rows added, in the buffer harness
MaxAdds == 3

----------------------------------------------------------------------------
(* Texts.                                                                  *)

Rupee == "₹"
Digits == {"0", "1", "2", "3", "4", "5", "6", "7", "8", "9"}
NumChars == Digits \cup {"."}
Whitespace == {" "}

DigitVal(c) ==
    CASE c = "0" -> 0 [] c = "1" -> 1 [] c = "2" -> 2 [] c = "3" -> 3
      [] c = "4" -> 4 [] c = "5" -> 5 [] c = "6" -> 6 [] c = "7" -> 7
      [] c = "8" -> 8 [] c = "9" -> 9

\* str.lower(), on the letters of the ASCII alphabet
UpperCase == <<"A", "B", "C", "D", "E", "F", "G", "H", "I", "J", "K", "L", "M",
               "N", "O", "P", "Q", "R", "S", "T", "U", "V", "W", "X", "Y", "Z">>
LowerCase == <<"a", "b", "c", "d", "e", "f", "g", "h", "i", "j", "k", "l", "m",
               "n", "o", "p", "q", "r", "s", "t", "u", "v", "w", "x", "y", "z">>
LowerChar(c) ==
    IF \E i \in 1..Len(UpperCase) : UpperCase[i] = c
    THEN LowerCase[CHOOSE i \in 1..Len(UpperCase) : UpperCase[i] = c]
    ELSE c

Lower(t) == [i \in 1..Len(t) |-> LowerChar(t[i])]

\* str.replace(ch, '')
RemoveChar(t, ch) == SelectSeq(t, LAMBDA c : c # ch)

\* str.strip()
Strip(t) ==
    LET keep == {i \in 1..Len(t) : t[i] \notin Whitespace}
    IN  IF keep = {} THEN <<>>
        ELSE LET lo == CHOOSE i \in keep : \A j \in keep : i <= j
                 hi == CHOOSE i \in keep : \A j \in keep : j <= i
             IN  SubSeq(t, lo, hi)

\* str.count(ch)
CountChar(t, ch) == Cardinality({i \in 1..Len(t) : t[i] = ch})

\* sub in t
Contains(t, sub) ==
    \E i \in 0..(Len(t) - Len(sub)) : SubSeq(t, i + 1, i + Len(sub)) = sub

\* t.split(ch)[1]: what stands between the first and the second ch
SecondPart(t, ch) ==
    LET at == {i \in 1..Len(t) : t[i] = ch}
        a  == CHOOSE i \in at : \A j \in at : i <= j
        rest == {i \in at : i > a}
        b  == IF rest = {} THEN Len(t) + 1
              ELSE CHOOSE i \in rest : \A j \in rest : i <= j
    IN  SubSeq(t, a + 1, b - 1)

NoMatch == <<"no match">>

\* re.search(r'([\d.]+)', t): the first longest run of digits and dots
SearchNumber(t, chars) ==
    LET at == {i \in 1..Len(t) : t[i] \in chars}
    IN  IF at = {} THEN NoMatch
        ELSE LET lo == CHOOSE i \in at : \A j \in at : i <= j
                 hi == CHOOSE i \in lo..Len(t) :
                          /\ \A j \in lo..i : t[j] \in chars
                          /\ (i = Len(t) \/ t[i + 1] \notin chars)
             IN  SubSeq(t, lo, hi)

RECURSIVE DigitsValue(_)
DigitsValue(t) ==
    IF t = <<>> THEN 0
    ELSE 10 * DigitsValue(SubSeq(t, 1, Len(t) - 1)) + DigitVal(t[Len(t)])

RECURSIVE Pow10(_)
Pow10(n) == IF n = 0 THEN 1 ELSE 10 * Pow10(n - 1)

\* what a price function returns: None, a float, or an exception
None == [kind |-> "none"]
Raised == [kind |-> "raised"]
Float(n, d) == [kind |-> "float", num |-> n, den |-> d]

\* float(s) for s made of digits and dots: ValueError unless s has a digit
\* and at most one dot
ParseFloat(s) ==
    LET dots == {i \in 1..Len(s) : s[i] = "."}
        digs == RemoveChar(s, ".")
    IN  IF Cardinality(dots) > 1 \/ digs = <<>> THEN Raised
        ELSE IF dots = {} THEN Float(DigitsValue(digs), 1)
        ELSE LET d == CHOOSE i \in dots : TRUE
             IN  Float(DigitsValue(digs), Pow10(Len(s) - d))

Times(v, m) == IF v.kind = "float" THEN Float(v.num * m, v.den) ELSE v

\* Python's truth value of a price: None and 0.0 are false
Truthy(v) == v.kind = "float" /\ v.num # 0

Crore == 10000000
Lakh == 100000
Thousand == 1000

\* extract_price (ingestion.py)
extract_price(price_text) ==
    IF price_text = <<>> THEN None
    ELSE
      LET t1 == IF CountChar(price_text, Rupee) > 1
                THEN SecondPart(price_text, Rupee) ELSE price_text
          t2 == Strip(RemoveChar(Lower(t1), ","))
          m  == SearchNumber(t2, NumChars)
      IN  IF m = NoMatch THEN None
          ELSE LET value == ParseFloat(m)
               IN  IF Contains(t2, <<"c", "r">>)
                      \/ Contains(t2, <<"c", "r", "o", "r", "e">>)
                   THEN Times(value, Crore)
                   ELSE IF Contains(t2, <<"l", "a", "c">>)
                           \/ Contains(t2, <<"l", "a", "k", "h">>)
                   THEN Times(value, Lakh)
                   ELSE IF Contains(t2, <<"k">>)
                           \/ Contains(t2, <<"t", "h", "o", "u", "s", "a", "n", "d">>)
                   THEN Times(value, Thousand)
                   ELSE value

\* clean_price (99acres_scraper.py): AttributeError (no match) and
\* ValueError are caught and give None
clean_price(price_text) ==
    IF price_text = <<>> THEN None
    ELSE
      LET clean == Strip(RemoveChar(Lower(price_text), Rupee))
          num(chars, m) ==
              LET s == SearchNumber(clean, chars)
              IN  IF s = NoMatch THEN None
                  ELSE LET v == ParseFloat(RemoveChar(s, ","))
                       IN  IF v = Raised THEN None ELSE Times(v, m)
      IN  IF Contains(clean, <<"c", "r">>) THEN num(NumChars, Crore)
          ELSE IF Contains(clean, <<"l", "a", "c">>) THEN num(NumChars, Lakh)
          ELSE num(Digits \cup {","}, 1)

----------------------------------------------------------------------------
(* Candidate blocks and listing extraction.                                *)

\* the cities of run's dictionary, in its order
AllCities == <<"Noida", "Gurgaon", "Greater Noida", "Ghaziabad", "Faridabad",
               "New Delhi", "Delhi", "Bhiwadi", "Meerut", "Panipat", "Sonipat">>
\* the cities the model crawls: the first two, in the dictionary's order
Cities == <<"Noida", "Gurgaon">>
NumCities == Len(Cities)
CitySet == {Cities[i] : i \in 1..NumCities}

MagicBricksBase == "https://www.magicbricks.com"
AcresBase == "https://www.99acres.com"

\* the href of a card's link: relative, or absolute on the site
NoLink == [host |-> "none", path |-> 0]
Paths == {1, 2}
Hrefs(base) == {[host |-> h, path |-> i] : h \in {"", base}, i \in Paths}

\* if not url.startswith('http'): url = base + url
AbsUrl(href, base) ==
    IF href.host = "" THEN [host |-> base, path |-> href.path] ELSE href

\* the price texts the cards of the modelled site carry
NoPriceElem == <<>>
PriceTexts == { <<Rupee, "5", "0", " ", "L", "a", "c">>,
                <<"0">>,
                <<".">>,
                NoPriceElem }

\* a candidate block: its link and the text of its price element
Cards(base) == [href : Hrefs(base) \cup {NoLink}, price_text : PriceTexts]
PagesOf(base) ==
    {<<>>} \cup {<<c>> : c \in Cards(base)}
           \cup {<<c, d>> : c \in Cards(base), d \in Cards(base)}

Listing(url, city, price_text, price) ==
    [URL |-> url, City |-> city, Price_Raw |-> price_text, Price |-> price]

\* ExtractCard without the price check (a faulty variant, to test C7)
ExtractCard_any_price(acc, card, city) ==
    IF card.href = NoLink THEN acc
    ELSE LET url == AbsUrl(card.href, MagicBricksBase)
         IN  IF url \in acc.seen THEN [acc EXCEPT !.rejected = @ \cup {"seen_url"}]
             ELSE LET price == extract_price(card.price_text)
                  IN  IF price = Raised
                      THEN [acc EXCEPT !.rejected = @ \cup {"no_price"}]
                      ELSE [acc EXCEPT
                              !.listings = Append(@, Listing(url, city, card.price_text, price)),
                              !.seen = @ \cup {url}]

\* ExtractCard that forgets to register the URL (a faulty variant, to test C6)
ExtractCard_no_register(acc, card, city) ==
    IF card.href = NoLink THEN acc
    ELSE LET url == AbsUrl(card.href, MagicBricksBase)
         IN  IF url \in acc.seen THEN [acc EXCEPT !.rejected = @ \cup {"seen_url"}]
             ELSE LET price == extract_price(card.price_text)
                  IN  IF price = Raised \/ ~Truthy(price)
                      THEN [acc EXCEPT !.rejected = @ \cup {"no_price"}]
                      ELSE [acc EXCEPT
                              !.listings = Append(@, Listing(url, city, card.price_text, price))]

\* ExtractCard that registers the URL before it looks at the price (a
\* faulty variant, to test C28)
ExtractCard_register_first(acc, card, city) ==
    IF card.href = NoLink THEN acc
    ELSE LET url == AbsUrl(card.href, MagicBricksBase)
         IN  IF url \in acc.seen THEN [acc EXCEPT !.rejected = @ \cup {"seen_url"}]
             ELSE LET price == extract_price(card.price_text)
                  IN  IF price = Raised \/ ~Truthy(price)
                      THEN [acc EXCEPT !.rejected = @ \cup {"no_price"},
                                       !.seen = @ \cup {url}]
                      ELSE [acc EXCEPT
                              !.listings = Append(@, Listing(url, city, card.price_text, price)),
                              !.seen = @ \cup {url}]

\* one pass of extract_listings' loop body (ingestion.py): acc is
\* [listings, seen, rejected]
ExtractCard(acc, card, city) ==
    IF card.href = NoLink THEN acc
    ELSE LET url == AbsUrl(card.href, MagicBricksBase)
         IN  IF url \in acc.seen THEN [acc EXCEPT !.rejected = @ \cup {"seen_url"}]
             ELSE LET price == extract_price(card.price_text)
                  IN  IF price = Raised
                      THEN [acc EXCEPT !.rejected = @ \cup {"no_price"}]
                      ELSE IF ~Truthy(price)
                      THEN [acc EXCEPT !.rejected = @ \cup {"no_price"}]
                      ELSE [acc EXCEPT
                              !.listings = Append(@, Listing(url, city, card.price_text, price)),
                              !.seen = @ \cup {url}]

\* one pass of _extract_data's loop body (99acres_scraper.py)
ExtractCard99(acc, card, city) ==
    LET url == IF card.href = NoLink THEN NoLink ELSE AbsUrl(card.href, AcresBase)
    IN  IF url = NoLink THEN acc
        ELSE IF url \in acc.seen THEN [acc EXCEPT !.rejected = @ \cup {"seen_url"}]
        ELSE LET price == clean_price(card.price_text)
             IN  IF Truthy(price)
                 THEN [acc EXCEPT
                         !.listings = Append(@, Listing(url, city, card.price_text, price)),
                         !.seen = @ \cup {url}]
                 ELSE [acc EXCEPT !.rejected = @ \cup {"no_price"}]

RECURSIVE ExtractFrom(_, _, _, _)
ExtractFrom(acc, cards, city, site) ==
    IF cards = <<>> THEN acc
    ELSE ExtractFrom(IF site = "99acres" THEN ExtractCard99(acc, Head(cards), city)
                     ELSE ExtractCard(acc, Head(cards), city),
                     Tail(cards), city, site)

\* MagicBricksScraper.extract_listings: the listings and the new seen_urls
extract_listings(cards, city, seen) ==
    ExtractFrom([listings |-> <<>>, seen |-> seen, rejected |-> {}], cards, city, "magicbricks")

\* PropertyScraper._extract_data
extract_data(cards, city, seen) ==
    ExtractFrom([listings |-> <<>>, seen |-> seen, rejected |-> {}], cards, city, "99acres")

----------------------------------------------------------------------------
(* The files, CheckpointManager and DataBuffer.                            *)

NoFile == [kind |-> "nofile"]
\* the CSV file that does not exist, a value among the sequences of lines
NoStore == <<[kind |-> "nofile"]>>
HeaderLine == [kind |-> "header"]
RowLine(r) == [kind |-> "row", row |-> r]
RowLines(rows) == [i \in 1..Len(rows) |-> RowLine(rows[i])]

\* the rows pd.read_csv gives for the lines of a file: the first line names
\* the columns and is no row
CsvRows(lines) == [i \in 1..(Len(lines) - 1) |-> lines[i + 1]]
RowsOf(file) == IF file = NoStore THEN <<>> ELSE CsvRows(file)
StoreRows == RowsOf(store)

\* load_history that finds no history (a faulty variant, to test C4)
load_history_empty(file) == {}

\* MagicBricksScraper._load_history: df['URL'] raises KeyError, caught, when
\* the first line is no header
load_history(file) ==
    IF file = NoStore THEN {}
    ELSE IF file = <<>> \/ file[1] # HeaderLine THEN {}
    ELSE {file[i].row.URL : i \in 2..Len(file)}

\* CheckpointManager.save: the record json.dump writes
CheckpointData(city, pg, finished) ==
    [current_city |-> city, current_page |-> pg, finished_cities |-> finished]

NoCity == "None"
FirstPage == 1

\* what a checkpoint file can hold that save did not write: text that is no
\* JSON (an empty or truncated file), JSON that is no object (a list, a
\* string, a number, null), bytes that open() or the decoder refuses; and a
\* JSON object is a record of some of the keys of save
InvalidJson == [kind |-> "invalid_json"]
NotAnObject == [kind |-> "not_object"]
Unreadable == [kind |-> "unreadable"]
CheckpointKeys == {"current_city", "current_page", "finished_cities"}
FileKind(file) == IF "kind" \in DOMAIN file THEN file.kind ELSE "object"

\* CheckpointManager.load: None, the loaded object, or an exception.  Only
\* json.JSONDecodeError and KeyError are caught: checkpoint['current_city']
\* on a value that is no object raises TypeError, open() raises OSError and
\* the decoder UnicodeDecodeError
load(file) ==
    CASE FileKind(file) = "nofile" -> None
      [] FileKind(file) = "invalid_json" -> None
      [] FileKind(file) = "not_object" -> Raised
      [] FileKind(file) = "unreadable" -> Raised
      [] OTHER -> IF {"current_city", "current_page"} \subseteq DOMAIN file
                  THEN file ELSE None

\* checkpoint_data.get(key, default) if checkpoint_data else default
GetOr(file, key, default) ==
    LET checkpoint_data == load(file)
    IN  IF checkpoint_data \in {None, Raised} THEN default
        ELSE IF key \in DOMAIN checkpoint_data THEN checkpoint_data[key]
        ELSE default

\* the three reads of __init__
LoadFinished(file) == GetOr(file, "finished_cities", <<>>)
LoadResumeCity(file) == GetOr(file, "current_city", NoCity)
LoadResumePage(file) == GetOr(file, "current_page", FirstPage)

InSeq(x, s) == \E i \in 1..Len(s) : s[i] = x

\* should_flush with > for >= (a faulty variant, to test C8)
should_flush_late(count) == count > BatchSize

\* DataBuffer.should_flush
should_flush(count) == count >= BatchSize

\* to_csv that writes the header each time (a faulty variant, to test C9)
to_csv_with_header(file, rows) ==
    (IF file = NoStore THEN <<>> ELSE file) \o <<HeaderLine>> \o RowLines(rows)

\* df.to_csv(mode, header): the file after the write
to_csv(file, rows) ==
    IF file = NoStore THEN <<HeaderLine>> \o RowLines(rows)
    ELSE file \o RowLines(rows)

\* flush that writes whatever the buffer holds (a faulty variant, to test C11)
flush_empty_writes(file, buf, count, ok) ==
    IF ~ok
    THEN [store |-> file, buffer |-> buf, page_count |-> count, did |-> "failed"]
    ELSE [store |-> to_csv(file, buf), buffer |-> <<>>, page_count |-> 0,
          did |-> IF buf = <<>> THEN "noop" ELSE "written"]

\* flush that clears the buffer before the write (a faulty variant, to test C10)
flush_clear_first(file, buf, count, ok) ==
    IF buf = <<>>
    THEN [store |-> file, buffer |-> buf, page_count |-> count, did |-> "noop"]
    ELSE IF ~ok
    THEN [store |-> file, buffer |-> <<>>, page_count |-> 0, did |-> "failed"]
    ELSE [store |-> to_csv(file, buf), buffer |-> <<>>, page_count |-> 0,
          did |-> "written"]

\* DataBuffer.flush with the write succeeding (ok) or raising: the file, the
\* buffer and the page count after the call, and what the call did
flush(file, buf, count, ok) ==
    IF buf = <<>>
    THEN [store |-> file, buffer |-> buf, page_count |-> count, did |-> "noop"]
    ELSE IF ~ok
    THEN [store |-> file, buffer |-> buf, page_count |-> count, did |-> "failed"]
    ELSE [store |-> to_csv(file, buf), buffer |-> <<>>, page_count |-> 0,
          did |-> "written"]

----------------------------------------------------------------------------
(* The crawl: main, MagicBricksScraper.__init__, run and scrape_city.      *)

CityAt == Cities[ci]

NoFetches == [c \in CitySet |-> 0]

\* the memory of a process that does not run
Blank ==
    /\ seen_urls = {} /\ buffer = <<>> /\ page_count = 0
    /\ finished_cities = <<>> /\ resume_city = NoCity /\ resume_page = FirstPage
    /\ ci = 0 /\ page = 0 /\ consecutive_empty = 0 /\ outcome = "none"
    /\ loaded = NoFile /\ first_fetch = NoFetches /\ buf_origin = <<>>
    /\ shutdown_ops = {} /\ last_flush = "none" /\ rejected = {}

\* the same memory, as the state a step leaves
Wiped ==
    /\ seen_urls' = {} /\ buffer' = <<>> /\ page_count' = 0
    /\ finished_cities' = <<>> /\ resume_city' = NoCity /\ resume_page' = FirstPage
    /\ ci' = 0 /\ page' = 0 /\ consecutive_empty' = 0 /\ outcome' = "none"
    /\ loaded' = NoFile /\ first_fetch' = NoFetches /\ buf_origin' = <<>>
    /\ shutdown_ops' = {} /\ last_flush' = "none" /\ rejected' = {}

NoCall == <<"no call">>
acres_vars == <<collected, page_counter, since_save, acres_events>>
call_vars == <<fn_in, fn_out>>
NoAcres ==
    /\ collected = 0 /\ page_counter = 0
    /\ since_save = 0 /\ acres_events = {}
NoResult == [kind |-> "no call"]
NoCalls == fn_in = NoCall /\ fn_out = NoResult
NoHarness ==
    /\ ex_site = "none" /\ ex_cards = <<>> /\ ex_outs = <<>>
    /\ NoAcres /\ NoCalls

Init ==
    /\ store = NoStore /\ ckpt = NoFile /\ pc = "down"
    /\ runs = 0 /\ flushed_log = <<>> /\ n_writes = 0
    /\ Blank /\ NoHarness

harness_vars == <<ex_site, ex_cards, ex_outs, acres_vars, call_vars>>
file_vars == <<store, ckpt>>
buffer_vars == <<buffer, page_count, buf_origin>>
resume_vars == <<resume_city, resume_page>>
write_log == <<flushed_log, n_writes>>

\* the effect of a call of data_buffer.flush() whose write succeeds (ok) or
\* raises
CallFlush(ok) ==
    LET f == flush(store, buffer, page_count, ok)
    IN  /\ store' = f.store
        /\ buffer' = f.buffer
        /\ page_count' = f.page_count
        /\ last_flush' = f.did
        /\ buf_origin' = IF f.buffer = <<>> THEN <<>> ELSE buf_origin
        /\ flushed_log' = IF f.did = "written" THEN flushed_log \o buffer
                          ELSE flushed_log
        /\ n_writes' = IF f.did = "written" /\ n_writes < 2 THEN n_writes + 1
                       ELSE n_writes

\* run leaves its try block: the loop variables of run and scrape_city are
\* dead, and the history of the crawl loop is dropped with them
LeaveTry(how) ==
    /\ pc' = "run_finally" /\ outcome' = how
    /\ ci' = 0 /\ page' = 0 /\ consecutive_empty' = 0
    /\ loaded' = NoFile /\ first_fetch' = NoFetches /\ rejected' = {}

\* main: scraper = MagicBricksScraper(); scraper.run() up to run's for loop
Start ==
    /\ pc \in {"down", "exited"}
    /\ runs < MaxRuns
    /\ runs' = runs + 1
    /\ seen_urls' = load_history(store)
    /\ finished_cities' = LoadFinished(ckpt)
    /\ resume_city' = LoadResumeCity(ckpt)
    /\ resume_page' = LoadResumePage(ckpt)
    /\ loaded' = ckpt
    /\ buffer' = <<>> /\ page_count' = 0 /\ buf_origin' = <<>>
    /\ ci' = 1 /\ page' = 0 /\ consecutive_empty' = 0
    /\ outcome' = "none" /\ first_fetch' = NoFetches
    /\ shutdown_ops' = {} /\ last_flush' = "none" /\ rejected' = {}
    /\ pc' = "run_loop"
    /\ UNCHANGED <<file_vars, write_log, harness_vars>>

\* run: one pass of "for city, url_template in cities.items()" up to the
\* call of scrape_city, or the end of the loop
RunLoop ==
    /\ pc = "run_loop"
    /\ last_flush' = "none"
    /\ UNCHANGED <<file_vars, seen_urls, buffer_vars, finished_cities, runs,
                   shutdown_ops, write_log, harness_vars>>
    /\ IF ci > NumCities
       THEN LeaveTry("normal") /\ UNCHANGED resume_vars
       ELSE IF InSeq(CityAt, finished_cities)
               \/ (resume_city # NoCity /\ CityAt # resume_city)
       THEN /\ ci' = ci + 1
            /\ UNCHANGED <<pc, outcome, resume_vars, page, consecutive_empty,
                           loaded, first_fetch, rejected>>
       ELSE /\ page' = (IF CityAt = resume_city THEN resume_page ELSE FirstPage)
            /\ resume_city' = NoCity /\ resume_page' = FirstPage
            /\ consecutive_empty' = 0
            /\ pc' = "page_head"
            /\ UNCHANGED <<ci, outcome, loaded, first_fetch, rejected>>

\* scrape_city: "for page in range(start_page, max_pages + 1)" and the
\* checkpoint saved before the fetch; a save that raises is caught by the
\* loop's except clause, and the for loop goes on to the next page
PageHead ==
    /\ pc = "page_head"
    /\ last_flush' = "none"
    /\ UNCHANGED <<store, seen_urls, buffer_vars, finished_cities, resume_vars,
                   ci, consecutive_empty, outcome, runs, loaded, first_fetch,
                   shutdown_ops, write_log, rejected, harness_vars>>
    /\ IF page > MaxPages
       THEN pc' = "city_save" /\ UNCHANGED <<ckpt, page>>
       ELSE \E ok \in BOOLEAN :
              IF ok
              THEN /\ ckpt' = CheckpointData(CityAt, page, finished_cities)
                   /\ pc' = "page_fetch" /\ UNCHANGED page
              ELSE /\ page' = page + 1
                   /\ UNCHANGED <<ckpt, pc>>

NoteFetch ==
    first_fetch' = IF first_fetch[CityAt] = 0
                   THEN [first_fetch EXCEPT ![CityAt] = page] ELSE first_fetch

\* FetchFailed without the break (a faulty variant, to test C13)
FetchFailed_no_stop ==
    /\ pc = "page_fetch"
    /\ NoteFetch
    /\ consecutive_empty' = consecutive_empty + 1
    /\ pc' = "page_head" /\ page' = page + 1
    /\ last_flush' = "none"
    /\ UNCHANGED <<file_vars, seen_urls, buffer_vars, finished_cities,
                   resume_vars, ci, outcome, runs, loaded, shutdown_ops,
                   write_log, rejected, harness_vars>>

\* scrape_city: get_page gives None
FetchFailed ==
    /\ pc = "page_fetch"
    /\ NoteFetch
    /\ consecutive_empty' = consecutive_empty + 1
    /\ IF consecutive_empty' >= EmptyLimit
       THEN pc' = "city_save" /\ UNCHANGED page
       ELSE pc' = "page_head" /\ page' = page + 1
    /\ last_flush' = "none"
    /\ UNCHANGED <<file_vars, seen_urls, buffer_vars, finished_cities,
                   resume_vars, ci, outcome, runs, loaded, shutdown_ops,
                   write_log, rejected, harness_vars>>

\* scrape_city: the page is a CAPTCHA page
FetchCaptcha ==
    /\ pc = "page_fetch"
    /\ NoteFetch
    /\ pc' = "page_head" /\ page' = page + 1
    /\ last_flush' = "none"
    /\ UNCHANGED <<file_vars, seen_urls, buffer_vars, finished_cities,
                   resume_vars, ci, consecutive_empty, outcome, runs, loaded,
                   shutdown_ops, write_log, rejected, harness_vars>>

\* scrape_city: the page is fetched, its listings extracted and buffered
FetchPage ==
    /\ pc = "page_fetch"
    /\ NoteFetch
    /\ \E cards \in PagesOf(MagicBricksBase) :
         LET got == extract_listings(cards, CityAt, seen_urls)
         IN  /\ seen_urls' = got.seen
             /\ rejected' = rejected \cup got.rejected
             /\ IF got.listings = <<>>
                THEN /\ consecutive_empty' = consecutive_empty + 1
                     /\ pc' = IF consecutive_empty' >= EmptyLimit
                              THEN "city_save" ELSE "page_flush"
                     /\ UNCHANGED buffer_vars
                ELSE /\ consecutive_empty' = 0
                     /\ buffer' = buffer \o got.listings
                     /\ page_count' = page_count + 1
                     /\ buf_origin' = buf_origin \o
                            [i \in 1..Len(got.listings) |-> <<CityAt, page>>]
                     /\ pc' = "page_flush"
    /\ last_flush' = "none"
    /\ UNCHANGED <<file_vars, finished_cities, resume_vars, ci, page, outcome,
                   runs, loaded, shutdown_ops, write_log, harness_vars>>

\* scrape_city: "if self.data_buffer.should_flush(): self.data_buffer.flush()";
\* a write that raises is caught by the loop's except clause; either way the
\* for loop goes on to the next page
PageFlush ==
    /\ pc = "page_flush"
    /\ IF should_flush(page_count)
       THEN \E ok \in BOOLEAN : CallFlush(ok)
       ELSE last_flush' = "none" /\ UNCHANGED <<store, buffer_vars, write_log>>
    /\ pc' = "page_head" /\ page' = page + 1
    /\ UNCHANGED <<ckpt, seen_urls, finished_cities, resume_vars, ci,
                   consecutive_empty, outcome, runs, loaded, first_fetch,
                   shutdown_ops, rejected, harness_vars>>

\* run: the city is marked finished and the checkpoint saved; a save that
\* raises ends run's try block in "except Exception"
CitySave ==
    /\ pc = "city_save"
    /\ finished_cities' = IF InSeq(CityAt, finished_cities) THEN finished_cities
                          ELSE Append(finished_cities, CityAt)
    /\ \E ok \in BOOLEAN :
         IF ok
         THEN /\ ckpt' = CheckpointData(CityAt, FirstPage, finished_cities')
              /\ pc' = "city_flush"
              /\ UNCHANGED <<outcome, ci, page, consecutive_empty, loaded,
                             first_fetch, rejected>>
         ELSE LeaveTry("fatal") /\ UNCHANGED ckpt
    /\ last_flush' = "none"
    /\ UNCHANGED <<store, seen_urls, buffer_vars, resume_vars, runs,
                   shutdown_ops, write_log, harness_vars>>

\* run: the flush that follows the city's checkpoint
CityFlush ==
    /\ pc = "city_flush"
    /\ \E ok \in BOOLEAN :
         /\ CallFlush(ok)
         /\ IF last_flush' = "failed"
            THEN LeaveTry("fatal")
            ELSE /\ pc' = "run_loop" /\ ci' = ci + 1
                 /\ UNCHANGED <<outcome, page, consecutive_empty, loaded,
                                first_fetch, rejected>>
    /\ UNCHANGED <<ckpt, seen_urls, finished_cities, resume_vars, runs,
                   shutdown_ops, harness_vars>>

InTry == pc \in {"run_loop", "page_head", "page_fetch", "page_flush",
                 "city_save", "city_flush"}

\* run: "except KeyboardInterrupt"
Interrupt ==
    /\ InTry
    /\ LeaveTry("interrupt")
    /\ last_flush' = "none"
    /\ UNCHANGED <<file_vars, seen_urls, buffer_vars, finished_cities,
                   resume_vars, runs, shutdown_ops, write_log, harness_vars>>

\* run: the finally clause: the flush, then the summary of get_summary is
\* logged; a write that raises leaves run for main's "except Exception"
\* before the summary
RunFinally ==
    /\ pc = "run_finally"
    /\ \E ok \in BOOLEAN :
         /\ CallFlush(ok)
         /\ outcome' = IF last_flush' = "failed" THEN "fatal" ELSE outcome
    /\ shutdown_ops' = shutdown_ops \cup {"flush"}
                           \cup (IF last_flush' = "failed" THEN {} ELSE {"summary"})
    /\ pc' = "main_finally"
    /\ UNCHANGED <<ckpt, seen_urls, finished_cities, resume_vars, ci, page,
                   consecutive_empty, runs, loaded, first_fetch, rejected,
                   harness_vars>>

\* main: the finally clause, then the process ends
MainFinally ==
    /\ pc = "main_finally"
    /\ \E ok \in BOOLEAN : CallFlush(ok)
    /\ shutdown_ops' = shutdown_ops \cup {"flush"}
    /\ pc' = "exited"
    /\ UNCHANGED <<ckpt, seen_urls, finished_cities, resume_vars, ci, page,
                   consecutive_empty, outcome, runs, loaded, first_fetch,
                   rejected, harness_vars>>

\* the process is killed: its memory is gone, the files stay
Kill ==
    /\ pc \notin {"down", "exited"}
    /\ pc' = "down"
    /\ Wiped
    /\ UNCHANGED <<file_vars, runs, write_log, harness_vars>>

Next ==
    \/ Start \/ RunLoop \/ PageHead \/ FetchFailed \/ FetchCaptcha \/ FetchPage
    \/ PageFlush \/ CitySave \/ CityFlush \/ Interrupt \/ RunFinally
    \/ MainFinally \/ Kill

Spec == Init /\ [][Next]_vars

----------------------------------------------------------------------------
(* Properties of the crawl.                                                *)

Running == pc \notin {"down", "exited"}

CityIndex(c) == CHOOSE i \in 1..Len(AllCities) : AllCities[i] = c

\* C1: when the checkpoint this process loaded names city c, page p and the
\* finished cities F, c not in F, the process fetches no page of a city in
\* F, the first page it fetches for c is p, and the first page it fetches
\* for any other city is page 1.
C1_ResumeAtCheckpoint ==
    (loaded # NoFile /\ ~InSeq(loaded.current_city, loaded.finished_cities)) =>
        \A d \in CitySet :
            IF InSeq(d, loaded.finished_cities) THEN first_fetch[d] = 0
            ELSE IF d = loaded.current_city
            THEN first_fetch[d] \in {0, loaded.current_page}
            ELSE first_fetch[d] \in {0, FirstPage}

\* C2: a run that returns without an interrupt or a fatal error leaves
\* every configured city in finished_cities.
C2_AllCitiesFinished ==
    (pc = "exited" /\ outcome = "normal") =>
        \A d \in CitySet : InSeq(d, finished_cities)

\* whether a process started on the checkpoint file as it is would fetch
\* page pg of city c (run's skips and start page)
WouldFetch(c, pg) ==
    \/ ckpt = NoFile
    \/ /\ ~InSeq(c, ckpt.finished_cities)
       /\ \/ c = ckpt.current_city /\ pg >= ckpt.current_page
          \/ /\ c # ckpt.current_city
             /\ ~InSeq(ckpt.current_city, ckpt.finished_cities)
             /\ CityIndex(c) > CityIndex(ckpt.current_city)

InStore(url) == \E i \in 1..Len(StoreRows) : StoreRows[i].row.URL = url

\* C3: at every point where the process can be killed, each accepted record
\* is in the store or comes from a page that a process restarted from the
\* checkpoint file fetches again.
C3_NoAcceptedRecordLost ==
    Running =>
        \A i \in 1..Len(buffer) :
            InStore(buffer[i].URL) \/ WouldFetch(buf_origin[i][1], buf_origin[i][2])

\* C4: no two rows of the persisted store have the same URL.
C4_UniqueUrls ==
    \A i, j \in 1..Len(StoreRows) :
        i # j => StoreRows[i].row.URL # StoreRows[j].row.URL

\* a second process, its seen_urls rebuilt from a store that has rows, has
\* rejected a card for its known URL and has written rows of its own
C4_Witness ==
    /\ runs = 2 /\ Running
    /\ "seen_url" \in rejected
    /\ n_writes = 2 /\ last_flush = "written"

\* C5: when the process exits, its shutdown sequence has called both
\* DataBuffer.flush and CheckpointManager.save.
C5_ShutdownFlushAndSave ==
    pc = "exited" => {"flush", "save"} \subseteq shutdown_ops

\* the rows held in memory or on disk
BufferRows == {buffer[i] : i \in 1..Len(buffer)}
StoredRows == {StoreRows[i].row : i \in 1..Len(StoreRows)}

\* C7: every row in the buffer or the store has a price that is present and
\* strictly positive, and its price text does not normalize to absent or 0.
C7_PositivePrice ==
    \A r \in BufferRows \cup StoredRows :
        /\ r.Price.kind = "float" /\ r.Price.num > 0 /\ r.Price.den > 0
        /\ Truthy(extract_price(r.Price_Raw))

\* a process has rejected a card for its price and has rows in the buffer
\* and in the store
C7_Witness ==
    /\ Running /\ "no_price" \in rejected
    /\ buffer # <<>> /\ StoreRows # <<>>

InPageLoop == pc \in {"page_head", "page_fetch", "page_flush"}

\* C8: in the page loop nothing is written while fewer than BatchSize pages
\* have been added since the last flush; the add that makes the count
\* BatchSize leads to the flush check, and that check's flush (its write
\* succeeding) appends the buffer to the store once and leaves the buffer
\* empty and the page count 0.
C8_FlushBoundary ==
    [][ /\ (InPageLoop /\ page_count < BatchSize) => store' = store
        /\ (pc = "page_fetch" /\ page_count < BatchSize /\ page_count' = BatchSize)
               => pc' = "page_flush"
        /\ (pc = "page_flush" /\ pc' = "page_head" /\ page_count >= BatchSize
                /\ last_flush' # "failed")
               => /\ RowsOf(store') = RowsOf(store) \o RowLines(buffer)
                  /\ buffer' = <<>> /\ page_count' = 0
      ]_vars

\* the flush check of the page loop has just written a full batch
C8_Witness ==
    pc = "page_head" /\ last_flush = "written" /\ page_count = 0 /\ buffer = <<>>

\* C9: the store, missing at first, is one header followed by all the rows
\* flushed so far, in the order they were flushed.
C9_OneHeaderThenRows ==
    IF store = NoStore THEN flushed_log = <<>>
    ELSE store = <<HeaderLine>> \o RowLines(flushed_log)

\* two flushes have written rows
C9_Witness == n_writes = 2 /\ last_flush = "written"

\* C10: a flush whose write fails leaves buffer, page count and store as
\* they were; a running process empties a buffer only by a flush whose write
\* succeeded; such a flush appends the whole buffer, rows kept after a
\* failure included, and no row of the buffer is already in the store.
C10_ClearedOnlyAfterWrite ==
    [][ /\ last_flush' = "failed"
            => buffer' = buffer /\ page_count' = page_count /\ store' = store
        /\ (Running /\ pc' # "down" /\ buffer # <<>> /\ buffer' = <<>>)
            => last_flush' = "written"
        /\ last_flush' = "written"
            => /\ RowsOf(store') = RowsOf(store) \o RowLines(buffer)
               /\ buffer' = <<>>
        /\ \A i \in 1..Len(buffer') :
              \A j \in 1..Len(RowsOf(store')) : RowsOf(store')[j].row # buffer'[i]
      ]_vars

\* a batch flush has just failed and the process goes on with the full buffer
C10_Witness ==
    /\ pc = "page_head" /\ last_flush = "failed"
    /\ buffer # <<>> /\ page_count = BatchSize

\* a step that calls data_buffer.flush()
FlushCalled == last_flush' # "none"

\* C11: a flush called with an empty buffer changes nothing: the store is as
\* it was (a missing file stays missing), the buffer stays empty.
C11_EmptyFlushNoop ==
    [][ (FlushCalled /\ buffer = <<>>)
            => /\ last_flush' = "noop"
               /\ store' = store /\ buffer' = <<>>
               /\ flushed_log' = flushed_log
      ]_vars

\* flush has just been called with an empty buffer and no store file
C11_Witness == last_flush = "noop" /\ store = NoStore /\ buffer = <<>>

\* a step of scrape_city's loop that is neither cut by KeyboardInterrupt nor
\* by the death of the process
LoopStep == InPageLoop /\ pc' \notin {"run_finally", "down"}

\* C13: no page is fetched once the streak has reached EmptyLimit, and none
\* above MaxPages; the loop is left only with the streak at EmptyLimit or
\* the page above MaxPages, it is left as soon as the streak reaches
\* EmptyLimit, and while neither holds it goes on.
C13_StopConditions ==
    [][ /\ pc' = "page_fetch"
            => page' <= MaxPages /\ consecutive_empty' < EmptyLimit
        /\ (LoopStep /\ pc' = "city_save")
            => consecutive_empty' >= EmptyLimit \/ page' > MaxPages
        /\ (LoopStep /\ consecutive_empty' >= EmptyLimit) => pc' = "city_save"
        /\ (LoopStep /\ consecutive_empty' < EmptyLimit /\ page' <= MaxPages)
            => InPageLoop'
      ]_vars

\* a city has just been left by the break, for its streak, at a page within
\* MaxPages
C13_Witness ==
    /\ pc = "city_save" /\ consecutive_empty = EmptyLimit /\ page <= MaxPages

\* a step of scrape_city's loop in which the except clause catches an
\* exception: the checkpoint save of the page raised, or the flush did
Caught ==
    \/ pc = "page_head" /\ page <= MaxPages /\ pc' = "page_head"
    \/ pc = "page_flush" /\ last_flush' = "failed"

\* C14: after an exception raised while processing page p, with p below
\* MaxPages and the streak below EmptyLimit, the loop is at page p again.
C14_RetrySamePage ==
    [][ (Caught /\ page < MaxPages /\ consecutive_empty < EmptyLimit)
            => page' = page
      ]_vars

\* C21: the checkpoint file never lists a city as finished while rows
\* accepted for that city are in the buffer only.
C21_FlushBeforeFinished ==
    \A i \in 1..Len(buf_origin) :
        ~InSeq(buf_origin[i][1], LoadFinished(ckpt))

\* scrape_city has dealt with the page it fetched
PageDone == pc = "page_fetch" /\ pc' \in {"page_head", "page_flush", "city_save"}

\* C22: a page that cannot be used (the fetch failed, or it is a CAPTCHA
\* page) and a fetched page without new records each add one to the empty
\* streak; a page with a new record sets it to zero.
C22_StreakRule ==
    [][PageDone =>
          consecutive_empty' = IF Len(buffer') > Len(buffer) THEN 0
                               ELSE consecutive_empty + 1]_vars

\* C24: a write of the store or of the checkpoint that fails while the crawl
\* is in run's try block does not end the crawl (run does not leave the
\* block through "except Exception"), and the rows that were not written
\* stay in the buffer.
C24_WriteFailureContinues ==
    [][InTry => /\ outcome' # "fatal"
                /\ (last_flush' = "failed" => buffer' = buffer)]_vars

\* C25: whenever run has ended, on whatever path, it has logged the final
\* summary.
C25_SummaryAlways ==
    pc \in {"main_finally", "exited"} => "summary" \in shutdown_ops

UrlsOfRows(rows) == {rows[i].URL : i \in 1..Len(rows)}

\* C26: while run is in its try block (at its start, and at the end of
\* every page iteration), seen_urls is the set of the URLs of the rows in
\* the store and in the buffer.
C26_SeenIsDerived ==
    InTry => seen_urls = {r.URL : r \in StoredRows} \cup UrlsOfRows(buffer)

\* a second process has started on a store with rows, and has buffered a
\* row of its own
C26_Witness ==
    /\ pc = "page_head" /\ runs = 2
    /\ StoredRows # {} /\ buffer # <<>>
    /\ seen_urls = {r.URL : r \in StoredRows} \cup UrlsOfRows(buffer)

----------------------------------------------------------------------------
(* The extraction harness: one page, one scraper instance, the extractor   *)
(* called on the page again and again.                                     *)

SiteBase(site) == IF site = "99acres" THEN AcresBase ELSE MagicBricksBase
UrlsOf(site) == {AbsUrl(h, SiteBase(site)) : h \in Hrefs(SiteBase(site))}

InitExtract ==
    /\ store = NoStore /\ ckpt = NoFile /\ pc = "harness"
    /\ runs = 0 /\ flushed_log = <<>> /\ n_writes = 0
    /\ buffer = <<>> /\ page_count = 0
    /\ finished_cities = <<>> /\ resume_city = NoCity /\ resume_page = FirstPage
    /\ ci = 1 /\ page = 0 /\ consecutive_empty = 0 /\ outcome = "none"
    /\ loaded = NoFile /\ first_fetch = NoFetches /\ buf_origin = <<>>
    /\ shutdown_ops = {} /\ last_flush = "none" /\ rejected = {}
    /\ ex_site \in {"magicbricks", "99acres"}
    /\ ex_cards \in PagesOf(SiteBase(ex_site))
    /\ seen_urls \in SUBSET UrlsOf(ex_site)
    /\ ex_outs = <<>>
    /\ NoAcres /\ NoCalls

\* extract_listings(soup, city) or _extract_data(soup, city_name), called on
\* the same page
ExtractCall ==
    /\ pc = "harness"
    /\ Len(ex_outs) < MaxCalls
    /\ LET got == IF ex_site = "99acres"
                  THEN extract_data(ex_cards, CityAt, seen_urls)
                  ELSE extract_listings(ex_cards, CityAt, seen_urls)
       IN  /\ ex_outs' = Append(ex_outs, got.listings)
           /\ seen_urls' = got.seen
           /\ rejected' = rejected \cup got.rejected
    /\ UNCHANGED <<file_vars, pc, buffer_vars, finished_cities, resume_vars,
                   ci, page, consecutive_empty, outcome, runs, loaded,
                   first_fetch, shutdown_ops, last_flush, write_log,
                   ex_site, ex_cards, acres_vars, call_vars>>

NextExtract == ExtractCall

SpecExtract == InitExtract /\ [][NextExtract]_vars

\* C6: a call of the extractor that follows a call on the same page returns
\* the empty list, and every URL a call has yielded is in seen_urls.
C6_SecondCallEmpty ==
    /\ \A k \in 2..Len(ex_outs) : ex_outs[k] = <<>>
    /\ \A k \in 1..Len(ex_outs) :
          \A i \in 1..Len(ex_outs[k]) : ex_outs[k][i].URL \in seen_urls

\* the first call yielded listings and a second call has returned
C6_Witness == Len(ex_outs) >= 2 /\ ex_outs[1] # <<>>

\* C28: a call of extract_listings adds to seen_urls the URLs of the
\* listings it returns and no other: a block it rejects (no link, no
\* positive price, an error while it is parsed) leaves seen_urls as it was.
C28_RejectedNotRegistered ==
    [][(ex_site = "magicbricks" /\ ex_outs' # ex_outs) =>
          seen_urls' = seen_urls \cup UrlsOfRows(ex_outs'[Len(ex_outs')])]_vars

\* a call has rejected a block for its price, and the URL of the block is
\* not in seen_urls
C28_Witness ==
    /\ ex_site = "magicbricks" /\ ex_outs # <<>> /\ "no_price" \in rejected
    /\ \E i \in 1..Len(ex_cards) :
          /\ ex_cards[i].href # NoLink
          /\ ~Truthy(extract_price(ex_cards[i].price_text))
          /\ AbsUrl(ex_cards[i].href, MagicBricksBase) \notin seen_urls

----------------------------------------------------------------------------
(* The buffer harness: one DataBuffer (the class is the same in             *)
(* ingestion.py and in 99acres_scraper.py), add and flush called in any     *)
(* order.                                                                   *)

\* the record lists passed to add
AddLists ==
    LET row(i) == Listing(AbsUrl([host |-> "", path |-> i], MagicBricksBase),
                          Cities[1], <<Rupee, "5", "0", " ", "L", "a", "c">>,
                          Float(5000000, 1))
    IN  {<<>>, <<row(1)>>, <<row(1), row(2)>>}

InitBuffer ==
    /\ store = NoStore /\ ckpt = NoFile /\ pc = "buffer"
    /\ runs = 0 /\ flushed_log = <<>> /\ n_writes = 0
    /\ Blank /\ NoHarness

\* DataBuffer.add(listings)
BufferAdd ==
    /\ pc = "buffer"
    /\ page_count < MaxAdds
    /\ \E listings \in AddLists :
         /\ Len(flushed_log) + Len(buffer) + Len(listings) <= MaxAdds
         /\ buffer' = buffer \o listings
    /\ page_count' = page_count + 1
    /\ last_flush' = "none"
    /\ UNCHANGED <<file_vars, pc, seen_urls, buf_origin, finished_cities,
                   resume_vars, ci, page, consecutive_empty, outcome, runs,
                   loaded, first_fetch, shutdown_ops, write_log, rejected,
                   harness_vars>>

\* DataBuffer.flush()
BufferFlush ==
    /\ pc = "buffer"
    /\ \E ok \in BOOLEAN : CallFlush(ok)
    /\ UNCHANGED <<ckpt, pc, seen_urls, finished_cities, resume_vars, ci, page,
                   consecutive_empty, outcome, runs, loaded, first_fetch,
                   shutdown_ops, rejected, harness_vars>>

NextBuffer == BufferAdd \/ BufferFlush

SpecBuffer == InitBuffer /\ [][NextBuffer]_vars

\* C27: when flush has returned normally, should_flush() is false.
C27_FlushResetsCount ==
    [][(pc = "buffer" /\ last_flush' \in {"noop", "written"}) =>
          ~should_flush(page_count')]_vars

----------------------------------------------------------------------------
(* The start-up harness: a checkpoint file of any content, and              *)
(* MagicBricksScraper() constructed on it by main.                          *)

FinishedLists ==
    {<<>>} \cup {<<c>> : c \in CitySet}
           \cup {cd \in CitySet \X CitySet : cd[1] # cd[2]}

\* the JSON object that holds the given keys of a record of save
JsonObject(keys, city, pg, finished) ==
    [k \in keys |-> CheckpointData(city, pg, finished)[k]]

CheckpointFiles ==
    {NoFile, InvalidJson, NotAnObject, Unreadable}
        \cup {JsonObject(keys, c, p, f) : keys \in SUBSET CheckpointKeys,
                                        c \in CitySet, p \in 1..MaxPages,
                                        f \in FinishedLists}

InitLoad ==
    /\ store = NoStore /\ pc = "harness"
    /\ runs = 0 /\ flushed_log = <<>> /\ n_writes = 0
    /\ Blank /\ NoHarness
    /\ ckpt \in CheckpointFiles

\* main: "scraper = MagicBricksScraper()"; an exception of __init__ is
\* logged by main's "except Exception" and the process ends with no scraper
Construct ==
    /\ pc = "harness"
    /\ IF load(ckpt) = Raised
       THEN /\ pc' = "exited" /\ outcome' = "fatal"
            /\ UNCHANGED <<seen_urls, finished_cities, resume_vars>>
       ELSE /\ pc' = "constructed"
            /\ seen_urls' = load_history(store)
            /\ finished_cities' = LoadFinished(ckpt)
            /\ resume_city' = LoadResumeCity(ckpt)
            /\ resume_page' = LoadResumePage(ckpt)
            /\ UNCHANGED outcome
    /\ UNCHANGED <<file_vars, buffer_vars, ci, page, consecutive_empty, runs,
                   loaded, first_fetch, shutdown_ops, last_flush, write_log,
                   rejected, harness_vars>>

NextLoad == Construct

SpecLoad == InitLoad /\ [][NextLoad]_vars

\* a checkpoint file that exists and is not what save writes
Malformed(file) ==
    FileKind(file) \in {"invalid_json", "not_object", "unreadable"}
        \/ (FileKind(file) = "object" /\ DOMAIN file # CheckpointKeys)

----------------------------------------------------------------------------
(* The price harness: extract_price called on a price text made of an       *)
(* optional currency symbol, a number, and what follows the number.         *)

PriceSymbols == {<<>>, <<Rupee>>, <<Rupee, " ">>}
PriceNumbers == {<<"1", ".", "2", "5">>, <<"5", "0">>, <<"8", "5">>}
PriceGaps == {<<>>, <<" ">>}
\* magnitude suffixes, as whole tokens
CroreTokens == {<<"c", "r">>, <<"C", "r">>, <<"C", "R">>,
                <<"c", "r", "o", "r", "e">>, <<"C", "r", "o", "r", "e">>}
LakhTokens == {<<"l">>, <<"L">>, <<"l", "a", "c">>, <<"L", "a", "c">>,
               <<"l", "a", "k", "h">>, <<"L", "a", "k", "h">>}
ThousandTokens == {<<"k">>, <<"K">>,
                   <<"t", "h", "o", "u", "s", "a", "n", "d">>,
                   <<"T", "h", "o", "u", "s", "a", "n", "d">>}
NoSuffix == <<>>
SuffixTokens == CroreTokens \cup LakhTokens \cup ThousandTokens
\* words that are no magnitude suffix: "per acre", "black", "week",
\* "local", "onwards"
OtherWords == {<<"p", "e", "r", " ", "a", "c", "r", "e">>,
               <<"b", "l", "a", "c", "k">>,
               <<"w", "e", "e", "k">>,
               <<"l", "o", "c", "a", "l">>,
               <<"o", "n", "w", "a", "r", "d", "s">>}

PriceInputs ==
    [symbol : PriceSymbols, number : PriceNumbers, gap : PriceGaps,
     tail : SuffixTokens \cup {NoSuffix} \cup OtherWords]
PriceText(in) == in.symbol \o in.number \o in.gap \o in.tail

InitPrice ==
    /\ store = NoStore /\ ckpt = NoFile /\ pc = "harness"
    /\ runs = 0 /\ flushed_log = <<>> /\ n_writes = 0
    /\ Blank
    /\ ex_site = "none" /\ ex_cards = <<>> /\ ex_outs = <<>> /\ NoAcres
    /\ fn_in \in PriceInputs /\ fn_out = NoResult

\* extract_price(price_text)
PriceCall ==
    /\ pc = "harness"
    /\ fn_out' = extract_price(PriceText(fn_in))
    /\ pc' = "called"
    /\ UNCHANGED <<file_vars, seen_urls, buffer_vars, finished_cities,
                   resume_vars, ci, page, consecutive_empty, outcome, runs,
                   loaded, first_fetch, shutdown_ops, last_flush, write_log,
                   rejected, ex_site, ex_cards, ex_outs, acres_vars, fn_in>>

NextPrice == PriceCall

SpecPrice == InitPrice /\ [][NextPrice]_vars

\* two results are the same number
SameValue(a, b) ==
    a.kind = "float" /\ b.kind = "float" /\ a.num * b.den = b.num * a.den

\* the multiplier the suffix stands for: 'cr'/'crore', 'l'/'lac'/'lakh',
\* 'k'/'thousand', in any case; 1 without a suffix
SuffixFactor(sfx) ==
    CASE sfx \in CroreTokens -> 10000000
      [] sfx \in LakhTokens -> 100000
      [] sfx \in ThousandTokens -> 1000
      [] OTHER -> 1

\* C17: for a text made of an optional currency symbol, a number n and an
\* optional magnitude suffix, extract_price returns n times the multiplier
\* of the suffix, and n itself when there is no suffix.
C17_SuffixMultipliers ==
    (pc = "called" /\ fn_in.tail \in SuffixTokens \cup {NoSuffix}) =>
        SameValue(fn_out, Times(ParseFloat(fn_in.number), SuffixFactor(fn_in.tail)))

\* C18: when what follows the number is a word that is no magnitude suffix,
\* extract_price returns the number verbatim.
C18_WholeTokenOnly ==
    (pc = "called" /\ fn_in.tail \in OtherWords) =>
        SameValue(fn_out, ParseFloat(fn_in.number))

----------------------------------------------------------------------------
(* The location harness: parse_location (preprocess.py) called on a title, *)
(* without a URL.                                                          *)

\* t[i..] starts with the lower-case literal lit, whatever the case of t
StartsAt(t, i, lit) ==
    /\ i >= 1 /\ i + Len(lit) - 1 <= Len(t)
    /\ \A k \in 1..Len(lit) : LowerChar(t[i + k - 1]) = lit[k]

\* the end of the longest run of characters of chars that starts at i
\* (i - 1 when t[i] is not one)
RunEnd(t, i, chars) ==
    LET ends == {j \in (i - 1)..Len(t) : \A k \in i..j : t[k] \in chars}
    IN  CHOOSE j \in ends : \A k \in ends : k <= j

Least(S) == CHOOSE x \in S : \A y \in S : x <= y

\* re.split(r'\s+in\s+', title, flags=re.IGNORECASE)[-1]: what follows the
\* last match, the matches taken from left to right; the title itself when
\* nothing matches
RECURSIVE address_text(_)
address_text(title) ==
    LET starts == {i \in 1..Len(title) :
                      /\ title[i] \in Whitespace
                      /\ LET j == RunEnd(title, i, Whitespace) + 1
                         IN  /\ StartsAt(title, j, <<"i", "n">>)
                             /\ j + 2 <= Len(title)
                             /\ title[j + 2] \in Whitespace}
    IN  IF starts = {} THEN title
        ELSE LET i == Least(starts)
                 j == RunEnd(title, i, Whitespace) + 1
                 e == RunEnd(title, j + 2, Whitespace)
             IN  address_text(SubSeq(title, e + 1, Len(title)))

\* t.split(',')
RECURSIVE SplitComma(_)
SplitComma(t) ==
    LET at == {i \in 1..Len(t) : t[i] = ","}
    IN  IF at = {} THEN <<t>>
        ELSE <<SubSeq(t, 1, Least(at) - 1)>>
                 \o SplitComma(SubSeq(t, Least(at) + 1, Len(t)))

\* [t.strip() for t in text.split(',') if t.strip()]
Tokens(text) ==
    LET parts == SplitComma(text)
    IN  SelectSeq([i \in 1..Len(parts) |-> Strip(parts[i])], LAMBDA p : p # <<>>)

Letters == {UpperCase[i] : i \in 1..Len(UpperCase)}
               \cup {LowerCase[i] : i \in 1..Len(LowerCase)}

\* what may stand between the word and the number: \s?[-]?\s?
NoSector == [found |-> FALSE]

SectorGaps == {<<>>, <<" ">>, <<"-">>, <<" ", "-">>, <<"-", " ">>,
               <<" ", "-", " ">>, <<" ", " ">>}

\* the match of word\s?[-]?\s?(\d+[A-Z]?), case ignored, that starts at i:
\* [found, from, to, num], num the group; NoSector when there is none
SectorMatchAt(t, i, word) ==
    IF ~StartsAt(t, i, word) THEN NoSector
    ELSE LET g == i + Len(word)
             d == RunEnd(t, g, {" ", "-"}) + 1
             n == RunEnd(t, d, Digits)
         IN  IF SubSeq(t, g, d - 1) \notin SectorGaps \/ n < d THEN NoSector
             ELSE LET e == IF n < Len(t) /\ t[n + 1] \in Letters THEN n + 1 ELSE n
                  IN  [found |-> TRUE, from |-> i, to |-> e, num |-> SubSeq(t, d, e)]

\* re.search(pattern, text, re.IGNORECASE): the leftmost match
SectorSearch(t, word) ==
    LET at == {i \in 1..Len(t) : SectorMatchAt(t, i, word) # NoSector}
    IN  IF at = {} THEN NoSector ELSE SectorMatchAt(t, Least(at), word)

\* the words of SECTOR_PATTERNS, in their order
SECTOR_PATTERNS == << <<"s", "e", "c", "t", "o", "r">>, <<"s", "e", "c">> >>

\* KNOWN_AREAS, for texts whose words are one space apart: the literal
\* before the number, and whether a number follows
KNOWN_AREAS ==
    << [lit |-> <<"d", "l", "f", " ", "p", "h", "a", "s", "e", " ">>, digits |-> TRUE],
       [lit |-> <<"g", "o", "l", "f", " ", "c", "o", "u", "r", "s", "e", " ", "r", "o", "a", "d">>, digits |-> FALSE],
       [lit |-> <<"n", "o", "i", "d", "a", " ", "e", "x", "t", "e", "n", "s", "i", "o", "n">>, digits |-> FALSE],
       [lit |-> <<"g", "r", "e", "a", "t", "e", "r", " ", "n", "o", "i", "d", "a", " ", "w", "e", "s", "t">>, digits |-> FALSE],
       [lit |-> <<"s", "o", "h", "n", "a", " ", "r", "o", "a", "d">>, digits |-> FALSE],
       [lit |-> <<"m", "g", " ", "r", "o", "a", "d">>, digits |-> FALSE],
       [lit |-> <<"d", "w", "a", "r", "k", "a">>, digits |-> FALSE] >>

\* re.search(area_pattern, text, re.IGNORECASE).group(0), or NoMatch
AreaSearch(t, area) ==
    LET ok(i) == /\ StartsAt(t, i, area.lit)
                 /\ area.digits => RunEnd(t, i + Len(area.lit), Digits) >= i + Len(area.lit)
        at == {i \in 1..Len(t) : ok(i)}
    IN  IF at = {} THEN NoMatch
        ELSE LET i == Least(at)
             IN  SubSeq(t, i, IF area.digits THEN RunEnd(t, i + Len(area.lit), Digits)
                                 ELSE i + Len(area.lit) - 1)

NoText == <<"None">>
DefaultSociety == <<"I", "n", "d", "e", "p", "e", "n", "d", "e", "n", "t", "/", "A", "u", "t", "h", "o", "r", "i", "t", "y">>
DefaultLocality == <<"N", "C", "R">>
FlatWord == <<"F", "l", "a", "t">>
SectorWord == <<"S", "e", "c", "t", "o", "r", " ">>

Location(society, sector, locality) ==
    [kind |-> "location", society |-> society, sector |-> sector,
     locality |-> locality]

\* the society of step 2: the last token before the match, unless it is
\* short or holds "Flat"
SocietyBefore(text, m) ==
    LET pre_tokens == Tokens(SubSeq(text, 1, m.from - 1))
    IN  IF pre_tokens = <<>> THEN DefaultSociety
        ELSE LET potential_society == pre_tokens[Len(pre_tokens)]
             IN  IF Len(potential_society) > 2 /\ ~Contains(potential_society, FlatWord)
                 THEN potential_society ELSE DefaultSociety

\* parse_location(title): a title is a text here, and there is no URL
parse_location(title) ==
    LET text == address_text(title)
        tokens == Tokens(text)
        locality == IF tokens = <<>> THEN DefaultLocality ELSE tokens[Len(tokens)]
        m1 == SectorSearch(text, SECTOR_PATTERNS[1])
        m2 == SectorSearch(text, SECTOR_PATTERNS[2])
        m == IF m1.found THEN m1 ELSE m2
        areas == {k \in 1..Len(KNOWN_AREAS) : AreaSearch(text, KNOWN_AREAS[k]) # NoMatch}
    IN  IF m.found
        THEN Location(SocietyBefore(text, m), SectorWord \o m.num, locality)
        ELSE IF areas # {}
        THEN Location(IF Len(tokens) >= 3 THEN tokens[1] ELSE DefaultSociety,
                      AreaSearch(text, KNOWN_AREAS[Least(areas)]), locality)
        ELSE IF Len(tokens) >= 2
                /\ Len(tokens[Len(tokens) - 1]) > 3
                /\ ~Contains(tokens[Len(tokens) - 1], FlatWord)
        THEN Location(IF Len(tokens) >= 3 THEN tokens[1] ELSE DefaultSociety,
                      tokens[Len(tokens) - 1], locality)
        ELSE Location(DefaultSociety, NoText, locality)

\* the titles of the harness: '<text> in <Society>, Sector <N>, <Locality>'
\* built from its parts, and titles of other forms
TitleTexts == { <<"3", " ", "B", "H", "K", " ", "F", "l", "a", "t", " ", "f", "o", "r", " ", "S", "a", "l", "e">>, <<"V", "i", "l", "l", "a">>, <<"2", " ", "B", "H", "K", " ", "A", "p", "a", "r", "t", "m", "e", "n", "t", " ", "I", "N", " ", "T", "o", "w", "e", "r", " ", "5">> }
Societies == { <<"G", "o", "d", "r", "e", "j", " ", "W", "o", "o", "d", "s">>, <<"A", "T", "S">>, <<"D", "L", "F">>, <<"M", "y", " ", "F", "l", "a", "t", " ", "H", "o", "m", "e", "s">>, <<"S", "t", "a", "y", " ", "i", "n", " ", "S", "t", "y", "l", "e">>, <<"S", "e", "c", "t", "o", "r", " ", "9", " ", "R", "e", "s", "i", "d", "e", "n", "c", "y">> }
SectorNumbers == { <<"4", "3">>, <<"1", "1", "5">>, <<"7", "0", "A">> }
Localities == { <<"N", "o", "i", "d", "a">>, <<"G", "u", "r", "g", "a", "o", "n">> }
FormTitles ==
    [kind : {"form"}, text : TitleTexts, society : Societies,
     n : SectorNumbers, locality : Localities]
OtherTitles ==
    {[kind |-> "other", title |-> t] :
        t \in { <<"3", " ", "B", "H", "K", " ", "i", "n", " ", "S", "e", "c", "t", "o", "r", " ", "1", "1", "5", ",", " ", "N", "o", "i", "d", "a">>,
               <<"V", "i", "l", "l", "a", " ", "i", "n", " ", "D", "L", "F", " ", "P", "h", "a", "s", "e", " ", "2", ",", " ", "G", "u", "r", "g", "a", "o", "n">>,
               <<"3", " ", "B", "H", "K", " ", "i", "n", " ", "T", "a", "t", "a", " ", "P", "r", "i", "m", "a", "n", "t", "i", ",", " ", "S", "o", "h", "n", "a", " ", "R", "o", "a", "d", ",", " ", "G", "u", "r", "g", "a", "o", "n">>,
               <<"P", "l", "o", "t", " ", "f", "o", "r", " ", "S", "a", "l", "e">> }}
TitleOf(in) ==
    IF in.kind = "other" THEN in.title
    ELSE in.text \o <<" ", "i", "n", " ">> \o in.society
             \o <<",", " ">> \o SectorWord \o in.n \o <<",", " ">> \o in.locality

InitLocation ==
    /\ store = NoStore /\ ckpt = NoFile /\ pc = "harness"
    /\ runs = 0 /\ flushed_log = <<>> /\ n_writes = 0
    /\ Blank
    /\ ex_site = "none" /\ ex_cards = <<>> /\ ex_outs = <<>> /\ NoAcres
    /\ fn_in \in FormTitles \cup OtherTitles /\ fn_out = NoResult

\* parse_location(title)
LocationCall ==
    /\ pc = "harness"
    /\ fn_out' = parse_location(TitleOf(fn_in))
    /\ pc' = "called"
    /\ UNCHANGED <<file_vars, seen_urls, buffer_vars, finished_cities,
                   resume_vars, ci, page, consecutive_empty, outcome, runs,
                   loaded, first_fetch, shutdown_ops, last_flush, write_log,
                   rejected, ex_site, ex_cards, ex_outs, acres_vars, fn_in>>

NextLocation == LocationCall

SpecLocation == InitLocation /\ [][NextLocation]_vars

\* C19: for a title '<text> in <Society>, Sector <N>, <Locality>' whose
\* Society has more than 2 characters and does not contain 'Flat',
\* parse_location returns Society, 'Sector <N>' and Locality.
C19_ParseLocation ==
    (pc = "called" /\ fn_in.kind = "form"
        /\ Len(fn_in.society) > 2 /\ ~Contains(fn_in.society, FlatWord)) =>
        fn_out = Location(fn_in.society, SectorWord \o fn_in.n, fn_in.locality)

----------------------------------------------------------------------------
(* The area harness: recover_area_and_rate (preprocess.py) called on one   *)
(* row.  Numbers are exact: Float(n, d) is n / d.                          *)

NaN == [kind |-> "nan"]

\* pd.isna(v), pd.notnull(v)
isna(v) == v.kind \in {"nan", "none"}
notnull(v) == ~isna(v)

\* a < b for two numbers
Less(a, b) == a.num * b.den < b.num * a.den

\* the match of ₹(\d+)\s*per sqft that starts at i: the number, else None
RateMatchAt(t, i) ==
    IF t[i] # Rupee THEN None
    ELSE LET n == RunEnd(t, i + 1, Digits)
             s == RunEnd(t, n + 1, Whitespace) + 1
         IN  IF n > i /\ s + 7 <= Len(t) /\ SubSeq(t, s, s + 7) = <<"p", "e", "r", " ", "s", "q", "f", "t">>
             THEN Float(DigitsValue(SubSeq(t, i + 1, n)), 1) ELSE None

\* rate = float(re.search(r'₹(\d+)\s*per sqft', price_raw).group(1)), None
\* when there is no match
RateSearch(price_raw) ==
    LET at == {i \in 1..Len(price_raw) : RateMatchAt(price_raw, i) # None}
    IN  IF at = {} THEN None ELSE RateMatchAt(price_raw, Least(at))

\* the match of (\d{3,5})\s*Sq\s*-?\s*ft, case ignored, that starts at i
TitleAreaAt(t, i) ==
    LET n == RunEnd(t, i, Digits)
        s == RunEnd(t, n + 1, Whitespace) + 1
    IN  IF n - i + 1 \notin 3..5 \/ ~StartsAt(t, s, <<"s", "q">>) THEN None
        ELSE LET u == RunEnd(t, s + 2, Whitespace) + 1
                 v == IF u <= Len(t) /\ t[u] = "-"
                      THEN RunEnd(t, u + 1, Whitespace) + 1 ELSE u
             IN  IF StartsAt(t, v, <<"f", "t">>)
                 THEN Float(DigitsValue(SubSeq(t, i, n)), 1) ELSE None

\* float(re.search(r'(\d{3,5})\s*Sq\s*-?\s*ft', title, re.IGNORECASE).group(1))
TitleArea(title) ==
    LET at == {i \in 1..Len(title) : TitleAreaAt(title, i) # None}
    IN  IF at = {} THEN None ELSE TitleAreaAt(title, Least(at))

\* round(price / rate, 0): to the nearest whole number, a tie to the even one
RoundDiv(price, rate) ==
    LET n == price.num * rate.den
        d == price.den * rate.num
        q == n \div d
        r == n % d
    IN  Float(IF 2 * r < d THEN q
              ELSE IF 2 * r > d THEN q + 1
              ELSE IF q % 2 = 0 THEN q ELSE q + 1, 1)

\* recovery strategy 1: the area of the title when the area is missing or
\* below 100
Strategy1(area, title) ==
    IF (isna(area) \/ Less(area, Float(100, 1))) /\ TitleArea(title) # None
    THEN TitleArea(title) ELSE area

\* recovery strategy 2: price / rate when the area is missing or 0
Strategy2(area, price, rate) ==
    IF (isna(area) \/ area.num = 0) /\ notnull(price)
          /\ rate # None /\ rate.num # 0 /\ rate.num > 0
    THEN RoundDiv(price, rate) ELSE area

\* the correction applied to the area but not to the rate (a faulty variant,
\* to test C20)
Strategy3_area_only(area, rate) ==
    IF notnull(area) /\ notnull(rate)
          /\ Less(Float(100000, 1), rate) /\ Less(area, Float(500, 1))
    THEN [rate |-> rate, area |-> Float(area.num * 9, area.den)]
    ELSE [rate |-> rate, area |-> area]

\* recovery strategy 3: square yards taken for square feet
Strategy3(area, rate) ==
    IF notnull(area) /\ notnull(rate)
          /\ Less(Float(100000, 1), rate) /\ Less(area, Float(500, 1))
    THEN [rate |-> Float(rate.num, rate.den * 9),
          area |-> Float(area.num * 9, area.den)]
    ELSE [rate |-> rate, area |-> area]

\* the area that reaches the correction: after strategies 1 and 2
RecoveredArea(row) ==
    Strategy2(Strategy1(row.area, row.title), row.price, RateSearch(row.price_raw))

\* recover_area_and_rate(row): [rate, area]
recover_area_and_rate(row) ==
    Strategy3(RecoveredArea(row), RateSearch(row.price_raw))

\* the rows of the harness
RowPrices == {NaN, Float(14400000, 1), Float(10000000, 1)}
RowTitles == { <<"3", " ", "B", "H", "K", " ", "F", "l", "a", "t", " ", "f", "o", "r", " ", "S", "a", "l", "e", " ", "i", "n", " ", "G", "o", "d", "r", "e", "j", " ", "W", "o", "o", "d", "s", ",", " ", "S", "e", "c", "t", "o", "r", " ", "4", "3", ",", " ", "N", "o", "i", "d", "a">>,
              <<"P", "l", "o", "t", " ", "9", "0", "0", " ", "S", "q", "-", "f", "t", " ", "i", "n", " ", "S", "e", "c", "t", "o", "r", " ", "9", ",", " ", "N", "o", "i", "d", "a">>,
              <<"V", "i", "l", "l", "a", " ", "1", "5", "0", "0", " ", "s", "q", "f", "t">>,
              <<"S", "h", "o", "p", " ", "9", "0", " ", "S", "q", " ", "f", "t">> }
RowPriceRaws == { <<Rupee, "1", ".", "4", "4", " ", "C", "r">>,
                 <<Rupee, "1", "2", "0", "0", "0", "0", " ", "p", "e", "r", " ", "s", "q", "f", "t">>,
                 <<Rupee, "1", "0", "0", "0", "0", "0", " ", "p", "e", "r", " ", "s", "q", "f", "t">>,
                 <<Rupee, "1", "0", "0", "0", "0", "1", " ", "p", "e", "r", " ", "s", "q", "f", "t">>,
                 <<Rupee, "9", "1", "4", "2", " ", "p", "e", "r", " ", "s", "q", "f", "t">>,
                 <<Rupee, "0", " ", "p", "e", "r", " ", "s", "q", "f", "t">> }
RowAreas == {NaN, Float(0, 1), Float(50, 1), Float(120, 1), Float(499, 1),
             Float(500, 1), Float(1500, 1)}
Rows == [price : RowPrices, title : RowTitles, price_raw : RowPriceRaws,
         area : RowAreas]

InitRecover ==
    /\ store = NoStore /\ ckpt = NoFile /\ pc = "harness"
    /\ runs = 0 /\ flushed_log = <<>> /\ n_writes = 0
    /\ Blank
    /\ ex_site = "none" /\ ex_cards = <<>> /\ ex_outs = <<>> /\ NoAcres
    /\ fn_in \in Rows /\ fn_out = NoResult

\* recover_area_and_rate(row)
RecoverCall ==
    /\ pc = "harness"
    /\ fn_out' = recover_area_and_rate(fn_in)
    /\ pc' = "called"
    /\ UNCHANGED <<file_vars, seen_urls, buffer_vars, finished_cities,
                   resume_vars, ci, page, consecutive_empty, outcome, runs,
                   loaded, first_fetch, shutdown_ops, last_flush, write_log,
                   rejected, ex_site, ex_cards, ex_outs, acres_vars, fn_in>>

NextRecover == RecoverCall

SpecRecover == InitRecover /\ [][NextRecover]_vars

\* the rate and the area are known, the rate above 100,000 and the area
\* below 500
YardCase(area, rate) ==
    /\ notnull(area) /\ notnull(rate)
    /\ Less(Float(100000, 1), rate) /\ Less(area, Float(500, 1))

\* C20: when the rate is known and above 100,000 and the area is known and
\* below 500, recover_area_and_rate returns 9 times the area and a ninth of
\* the rate, their product unchanged; otherwise it returns the area and the
\* rate as they are.  A rate of 120,000 with an area of 120 gives the area
\* 1080 and the rate 13,333.33.
C20_SquareYards ==
    pc = "called" =>
        LET rate == RateSearch(fn_in.price_raw)
            area == RecoveredArea(fn_in)
        IN  /\ YardCase(area, rate) =>
                /\ fn_out.area.num * area.den = 9 * area.num * fn_out.area.den
                /\ 9 * fn_out.rate.num * rate.den = rate.num * fn_out.rate.den
                /\ fn_out.area.num * fn_out.rate.num * area.den * rate.den
                       = area.num * rate.num * fn_out.area.den * fn_out.rate.den
            /\ ~YardCase(area, rate) =>
                fn_out.area = area /\ fn_out.rate = rate
            /\ (fn_in.area = Float(120, 1) /\ rate = Float(120000, 1)) =>
                /\ SameValue(fn_out.area, Float(1080, 1))
                /\ (fn_out.rate.num * 100) \div fn_out.rate.den = 1333333

C20_Witness ==
    /\ pc = "called"
    /\ fn_in.area = Float(120, 1)
    /\ RateSearch(fn_in.price_raw) = Float(120000, 1)
    /\ SameValue(fn_out.area, Float(1080, 1))

----------------------------------------------------------------------------
(* The 99acres crawl: main, PropertyScraper.__init__, run and _scrape_city  *)
(* of 99acres_scraper.py.  The configuration lists the cities of Cities,    *)
(* each with the target TargetCount; batch_size is BatchSize and            *)
(* consecutive_empty_limit is EmptyLimit.                                   *)

\* CheckpointManager.save (99acres): the record json.dump writes
CheckpointData99(city, pg) == [city |-> city, page |-> pg]

\* PropertyScraper.current_city: "" until _scrape_city is entered
CurrentCity == IF ci = 0 THEN "" ELSE Cities[ci]

\* the listing paths of the modelled 99acres site
AcresPaths == {1, 2, 3}

\* the pages the modelled 99acres site serves: no card, one card, or a card
\* of the first listing path followed by the card of the second; a card has
\* a relative link and a price, and one card comes without a price element
AcresCards ==
    {[href |-> [host |-> "", path |-> i],
      price_text |-> <<Rupee, "5", "0", " ", "L", "a", "c">>] : i \in AcresPaths}
        \cup {[href |-> [host |-> "", path |-> 1], price_text |-> NoPriceElem]}
AcresPages ==
    {<<>>} \cup {<<c>> : c \in AcresCards}
           \cup {<<c, d>> : c \in {x \in AcresCards : x.href.path = 1},
                            d \in {x \in AcresCards : x.href.path = 2}}

mb_only == <<finished_cities, resume_vars, ex_site, ex_cards, ex_outs, call_vars>>

InCityLoop99 == pc \in {"a_while", "a_denied", "a_error", "a_page", "a_flush"}

\* main: scraper = PropertyScraper(config_path); scraper.run() up to run's
\* for loop.  __init__ builds the CheckpointManager and never calls its load
AcresStart ==
    /\ pc \in {"down", "exited"}
    /\ runs < MaxRuns
    /\ runs' = runs + 1
    /\ seen_urls' = load_history(store)
    /\ loaded' = ckpt
    /\ buffer' = <<>> /\ page_count' = 0 /\ buf_origin' = <<>>
    /\ ci' = 0 /\ page' = FirstPage /\ consecutive_empty' = 0
    /\ collected' = 0 /\ page_counter' = 0
    /\ since_save' = 0 /\ acres_events' = {}
    /\ outcome' = "none" /\ first_fetch' = NoFetches
    /\ shutdown_ops' = {} /\ last_flush' = "none" /\ rejected' = {}
    /\ pc' = "a_next"
    /\ UNCHANGED <<file_vars, write_log, mb_only>>

\* run: "for city_config in self.config['cities']" and the head of
\* _scrape_city, or the end of run
AcresNextCity ==
    /\ pc = "a_next"
    /\ IF ci = NumCities
       THEN /\ pc' = "a_finally" /\ outcome' = "normal"
            /\ UNCHANGED <<ci, page, consecutive_empty, collected>>
       ELSE /\ ci' = ci + 1 /\ page' = FirstPage
            /\ collected' = 0 /\ consecutive_empty' = 0
            /\ pc' = "a_while" /\ UNCHANGED outcome
    /\ last_flush' = "none"
    /\ UNCHANGED <<file_vars, seen_urls, buffer_vars, runs, loaded, first_fetch,
                   shutdown_ops, write_log, rejected, page_counter, since_save,
                   acres_events, mb_only>>

\* _scrape_city: "while city_listings_collected < target_count" and
\* driver.get of the current page: the site answers with a soft ban, the
\* driver raises, or a page comes
AcresGet ==
    /\ pc = "a_while"
    /\ IF collected >= TargetCount
       THEN pc' = "a_next" /\ UNCHANGED first_fetch
       ELSE NoteFetch /\ pc' \in {"a_denied", "a_error", "a_page"}
    /\ last_flush' = "none"
    /\ UNCHANGED <<file_vars, seen_urls, buffer_vars, ci, page,
                   consecutive_empty, outcome, runs, loaded, shutdown_ops,
                   write_log, rejected, acres_vars, mb_only>>

\* _scrape_city: "Access Denied" in the title: _handle_soft_ban, continue;
\* a refresh that raises goes to the except clause
AcresSoftBan ==
    /\ pc = "a_denied"
    /\ pc' \in {"a_while", "a_error"}
    /\ last_flush' = "none"
    /\ UNCHANGED <<file_vars, seen_urls, buffer_vars, ci, page,
                   consecutive_empty, outcome, runs, loaded, first_fetch,
                   shutdown_ops, write_log, rejected, acres_vars, mb_only>>

\* _scrape_city: the except clause: the error is logged, the driver is
\* refreshed or set up again, and the loop goes on with the same page; a
\* driver that cannot be set up again ends run with the exception
AcresError ==
    /\ pc = "a_error"
    /\ \/ pc' = "a_while" /\ UNCHANGED outcome
       \/ pc' = "a_finally" /\ outcome' = "fatal"
    /\ last_flush' = "none"
    /\ UNCHANGED <<file_vars, seen_urls, buffer_vars, ci, page,
                   consecutive_empty, runs, loaded, first_fetch,
                   shutdown_ops, write_log, rejected, acres_vars, mb_only>>

\* _scrape_city: a page has come: the CAPTCHA check (quit returns from
\* _scrape_city), _extract_data, the empty-page count, data_buffer.add
AcresPage ==
    /\ pc = "a_page"
    /\ \/ /\ pc' = "a_next" /\ acres_events' = acres_events \cup {"quit"}
          /\ UNCHANGED <<seen_urls, buffer_vars, page, consecutive_empty,
                         rejected, collected, since_save>>
       \/ \E cards \in AcresPages :
            LET got == extract_data(cards, CityAt, seen_urls)
            IN  /\ seen_urls' = got.seen
                /\ since_save' = IF since_save > BatchSize THEN since_save
                                 ELSE since_save + 1
                /\ UNCHANGED acres_events
                /\ rejected' = rejected \cup got.rejected
                /\ IF got.listings = <<>>
                   THEN /\ consecutive_empty' = consecutive_empty + 1
                        /\ IF consecutive_empty' >= EmptyLimit
                           THEN pc' = "a_next" /\ UNCHANGED page
                           ELSE pc' = "a_while" /\ page' = page + 1
                        /\ UNCHANGED <<buffer_vars, collected>>
                   ELSE /\ consecutive_empty' = 0
                        /\ buffer' = buffer \o got.listings
                        /\ page_count' = page_count + 1
                        /\ buf_origin' = buf_origin \o
                               [i \in 1..Len(got.listings) |-> <<CityAt, page>>]
                        /\ collected' = collected + Len(got.listings)
                        /\ pc' = "a_flush" /\ UNCHANGED page
    /\ last_flush' = "none"
    /\ UNCHANGED <<file_vars, ci, outcome, runs, loaded, first_fetch,
                   shutdown_ops, write_log, page_counter, mb_only>>

\* _scrape_city: the flush check, the checkpoint every save_interval pages
\* (save_interval is batch_size), then current_page += 1; a write that
\* raises goes to the except clause before the page is advanced
AcresFlush ==
    /\ pc = "a_flush"
    /\ IF should_flush(page_count)
       THEN \E ok \in BOOLEAN : CallFlush(ok)
       ELSE last_flush' = "none" /\ UNCHANGED <<store, buffer_vars, write_log>>
    /\ IF last_flush' = "failed"
       THEN /\ pc' = "a_error"
            /\ acres_events' = acres_events \cup {"flush_failed"}
            /\ UNCHANGED <<ckpt, page, page_counter, since_save>>
       ELSE /\ page_counter' = (page_counter + 1) % BatchSize
            /\ UNCHANGED acres_events
            /\ IF page_counter' # 0
               THEN /\ pc' = "a_while" /\ page' = page + 1
                    /\ UNCHANGED <<ckpt, since_save>>
               ELSE \/ /\ ckpt' = CheckpointData99(CityAt, page)
                       /\ since_save' = 0
                       /\ pc' = "a_while" /\ page' = page + 1
                    \/ pc' = "a_error" /\ UNCHANGED <<ckpt, page, since_save>>
    /\ UNCHANGED <<seen_urls, ci, consecutive_empty, outcome, runs, loaded,
                   first_fetch, shutdown_ops, rejected, collected, mb_only>>

\* main: "except KeyboardInterrupt"
AcresInterrupt ==
    /\ pc \in {"a_next"} \cup {"a_while", "a_denied", "a_error", "a_page", "a_flush"}
    /\ pc' = "a_finally" /\ outcome' = "interrupt"
    /\ last_flush' = "none"
    /\ UNCHANGED <<file_vars, seen_urls, buffer_vars, ci, page,
                   consecutive_empty, runs, loaded, first_fetch,
                   shutdown_ops, write_log, rejected, acres_vars, mb_only>>

\* main: the finally clause: the flush and the checkpoint save, each in its
\* own try; then the process ends and its memory is gone
AcresFinally ==
    /\ pc = "a_finally"
    /\ \E ok \in BOOLEAN : CallFlush(ok)
    /\ \/ ckpt' = CheckpointData99(CurrentCity, page)
       \/ UNCHANGED ckpt
    /\ shutdown_ops' = shutdown_ops \cup {"flush", "save"}
    /\ pc' = "exited"
    /\ seen_urls' = {} /\ ci' = 0 /\ page' = 0 /\ consecutive_empty' = 0
    /\ loaded' = NoFile /\ first_fetch' = NoFetches /\ rejected' = {}
    /\ collected' = 0 /\ page_counter' = 0
    /\ since_save' = 0 /\ acres_events' = {}
    /\ UNCHANGED <<outcome, runs, mb_only>>

\* the process is killed
AcresKill ==
    /\ pc \in {"a_next", "a_finally"} \cup {"a_while", "a_denied", "a_error", "a_page", "a_flush"}
    /\ pc' = "down"
    /\ Wiped /\ collected' = 0 /\ page_counter' = 0
    /\ since_save' = 0 /\ acres_events' = {}
    /\ UNCHANGED <<file_vars, runs, write_log, ex_site, ex_cards, ex_outs, call_vars>>

\* the steps the running process takes by itself
AcresStep ==
    \/ AcresNextCity \/ AcresGet \/ AcresSoftBan \/ AcresError \/ AcresPage
    \/ AcresFlush \/ AcresFinally

NextAcres == AcresStart \/ AcresStep \/ AcresInterrupt \/ AcresKill

SpecAcres == Init /\ [][NextAcres]_vars

\* the process, while it lives, goes on with its next statement
SpecAcresLive == SpecAcres /\ WF_vars(AcresStep)

\* C15: if from some point on no page attempt yields new records (each is
\* blocked, raises, or comes back empty), the process does not stay in a
\* city's loop for ever: again and again it is outside of it.
C15_CityEventuallyFinished ==
    (<>[](pc # "a_flush")) => []<>(~InCityLoop99)

\* C16: a process started while the checkpoint file records city c and page
\* p fetches page p as the first page of c.
C16_AcresResume ==
    (InCityLoop99 /\ loaded # NoFile) =>
        \A c \in CitySet :
            (c = loaded.city /\ first_fetch[c] # 0) => first_fetch[c] = loaded.page

\* the crawl loop writes its cadence checkpoint in this step
CadenceSave ==
    /\ pc = "a_flush" /\ pc' = "a_while"
    /\ last_flush' # "failed" /\ page_counter' = 0

\* C23: when the crawl loop writes a cadence checkpoint, exactly BatchSize
\* pages (the save interval) have been processed since the cadence
\* checkpoint before it, or since the start for the first one.
C23_SaveEveryNPages ==
    [][CadenceSave => since_save = BatchSize]_vars

\* C29: once the user has chosen to quit at the CAPTCHA prompt, the process
\* does not fetch another page: it is never again at a point that follows a
\* driver.get.
C29_QuitStopsCrawl ==
    "quit" \in acres_events => pc \notin {"a_denied", "a_error", "a_page", "a_flush"}

\* C30: when the crawl loop writes a cadence checkpoint the buffer is
\* empty, and every URL the process has accepted or loaded is in the store.
C30_SaveAfterFlush ==
    [][CadenceSave =>
          /\ buffer' = <<>>
          /\ seen_urls' \subseteq {RowsOf(store')[i].row.URL :
                                     i \in 1..Len(RowsOf(store'))}]_vars

\* a cadence checkpoint has been written by a process that had a flush fail
\* before: its rows are in the store, the buffer is empty
C30_Witness ==
    /\ pc = "a_while" /\ page_counter = 0 /\ since_save = 0
    /\ ckpt = CheckpointData99(CityAt, page - 1)
    /\ "flush_failed" \in acres_events
    /\ buffer = <<>> /\ Cardinality(StoredRows) > BatchSize

====
